---- MODULE Spec2Model ----
(***************************************************************************)
(* A model of proxy_wasm::common::BytecodeUtil (src/common/bytecode_util.cc)*)
(* as a state machine.  A call of one of the operations on an input buffer  *)
(* is one behaviour: the Call action does the operation's prologue (the     *)
(* header check, the cursor set-up), every later action is one iteration of *)
(* one of the operation's loops, and pc = "done" is the return.             *)
(*                                                                         *)
(* Bytes are the integers 0..255, a buffer is a sequence of bytes, and a    *)
(* pointer into the buffer is its offset from bytecode.data() (the byte at  *)
(* offset p is buf[p + 1]).  A uint32_t is a pair of 16-bit halves          *)
(* [hi, lo], so that the arithmetic modulo 2^32 of the code is kept.        *)
(***************************************************************************)
EXTENDS Integers, Sequences, FiniteSets, TLC

VARIABLES
  shiftMode,  \* what the build does with a shift by 32 or more (undefined behaviour)
  buf,        \* bytecode: the buffer the operation was called on
  want,       \* getCustomSection's name argument
  op,         \* the operation that was called
  pc,         \* "idle", the loop the call is in, or "done" (it has returned)
  pos,        \* const char *pos
  end,        \* const char *end
  i,          \* the for loops' uint32_t i
  n,          \* export_vector_size / namemap_vector_size
  start,      \* getFunctionNameIndex: const auto start
  ssize,      \* getFunctionNameIndex: subsection_size
  ok,         \* the bool the operation returned
  val,        \* parseVarint's uint32_t &ret
  abi,        \* getAbiVersion's AbiVersion &ret
  view,       \* getCustomSection's std::string_view &ret
  names,      \* getFunctionNameIndex's std::unordered_map &ret
  out,        \* getStrippedSource's std::string &ret
  expect,     \* what the input was built from (not read by the operations)
  iters,      \* loop iterations begun since the call
  round,      \* 1: the call on the input, 2: getStrippedSource on its own output
  prev        \* round 2: the output of round 1

vars == << shiftMode, buf, want, op, pc, pos, end, i, n, start, ssize, ok, val,
           abi, view, names, out, expect, iters, round, prev >>

----------------------------------------------------------------------------
(* Bounds of the inputs.                                                    *)

\* the longest raw byte string handed to parseVarint
MaxVarintBytes == 6
\* the most sections after the header of a generated module
MaxSections == 3
\* the most entries of a generated export vector
MaxExports == 2
\* the most (index, name) pairs of a generated function-name subsection
MaxPairs == 2

----------------------------------------------------------------------------
(* uint32_t                                                                 *)

W16 == 2^16

Zero == [hi |-> 0, lo |-> 0]

\* static_cast<uint32_t>(-1)
AllOnes == [hi |-> W16 - 1, lo |-> W16 - 1]

U32(k) == [hi |-> 0, lo |-> k]

\* a + b modulo 2^32
U32Add(a, b) ==
  LET s == a.lo + b.lo
  IN  [hi |-> (a.hi + b.hi + (s \div W16)) % W16, lo |-> s % W16]

\* (b7 << s) for 0 <= s < 32, the low 32 bits of the product (the int wraps
\* as two's complement, which is what the builds do and C++20 defines)
Shl(b7, s) ==
  IF s < 16
  THEN [hi |-> ((b7 * (2^s)) \div W16) % W16, lo |-> (b7 * (2^s)) % W16]
  ELSE [hi |-> (b7 * (2^(s - 16))) % W16, lo |-> 0]

\* The builds' answers to a shift by 32 or more: the count taken modulo 32
\* (x86 shl), or every bit shifted out.
ShiftModes == {"mask", "zero"}

\* (b & 0x7f) << shift, as the build computes it
ShiftTerm(b7, shift) ==
  IF shift < 32 THEN Shl(b7, shift)
  ELSE IF shiftMode = "mask" THEN Shl(b7, shift % 32)
  ELSE Zero

\* pos + v > end, for a pointer distance room = end - pos >= 0
Overruns(v, room) == v.hi # 0 \/ v.lo > room

----------------------------------------------------------------------------
(* parseVarint                                                              *)

RECURSIVE VarintLoop(_, _, _, _, _)
VarintLoop(b, p, e, acc, shift) ==
  IF p + 1 > e
  THEN [ok |-> FALSE, pos |-> p, val |-> acc]
  ELSE LET byte == b[p + 1]
           ret  == U32Add(acc, ShiftTerm(byte % 128, shift))
       IN  IF byte >= 128
           THEN VarintLoop(b, p + 1, e, ret, shift + 7)
           ELSE [ok |-> ret # AllOnes, pos |-> p + 1, val |-> ret]

\* bool parseVarint(const char *&pos, const char *end, uint32_t &ret):
\* acc is ret on entry (the code adds into it), the result is the returned
\* bool with pos and ret on exit.
ParseVarint(b, p, e, acc) == VarintLoop(b, p, e, acc, 0)

----------------------------------------------------------------------------
(* Inputs of parseVarint                                                    *)

SeqsUpTo(S, k) == UNION { [1..m -> S] : m \in 0..k }

VarintAlphabet == {0, 15, 16, 128, 255}

RawVarints == SeqsUpTo(VarintAlphabet, MaxVarintBytes)

\* v >> 7
Shr7(v) == [hi |-> v.hi \div 128, lo |-> (v.lo \div 128) + (v.hi % 128) * 512]

\* the canonical unsigned LEB128 encoding of v
RECURSIVE Leb(_)
Leb(v) ==
  IF Shr7(v) = Zero THEN << v.lo % 128 >>
  ELSE << 128 + (v.lo % 128) >> \o Leb(Shr7(v))

U32Values ==
  { [hi |-> h, lo |-> l] :
      h \in {0, 1, 15, 16, 4095, 4096, 32767, 32768, 65535},
      l \in {0, 1, 127, 128, 16383, 16384, 65534, 65535} }

NoView == [off |-> -1, len |-> 0]

NoNames == {}

NoExpect == [valid |-> FALSE, v |-> Zero, abi |-> "Unknown", out |-> << >>,
             pairs |-> << >>]

----------------------------------------------------------------------------
(* checkWasmHeader                                                          *)

\* wasm_magic_number
WasmMagic == << 0, 97, 115, 109 >>

\* bytecode.size() < 8 || !memcmp(bytecode.data(), wasm_magic_number, 4);
\* the memcmp is evaluated only for a buffer of 8 bytes or more
CheckWasmHeader(b) == Len(b) < 8 \/ SubSeq(b, 1, 4) = WasmMagic

\* the bytes at offsets p .. p + k - 1
Bytes(b, p, k) == SubSeq(b, p + 1, p + k)

----------------------------------------------------------------------------
(* getAbiVersion                                                            *)

Abi010 == << 112, 114, 111, 120, 121, 95, 97, 98, 105, 95, 118, 101, 114, 115,
             105, 111, 110, 95, 48, 95, 49, 95, 48 >>
Abi020 == << 112, 114, 111, 120, 121, 95, 97, 98, 105, 95, 118, 101, 114, 115,
             105, 111, 110, 95, 48, 95, 50, 95, 48 >>
Abi021 == << 112, 114, 111, 120, 121, 95, 97, 98, 105, 95, 118, 101, 114, 115,
             105, 111, 110, 95, 48, 95, 50, 95, 49 >>

\* a section loop that skips section_len bytes from the section's start
AbiSectionIterFromStart(b, p, e) ==
  LET ret(r) == [pc |-> "done", ok |-> r, pos |-> p, n |-> 0] IN
  IF ~(p < e) THEN ret(TRUE)
  ELSE
    LET len == ParseVarint(b, p + 1, e, Zero)
        cnt == ParseVarint(b, len.pos, e, Zero)
    IN
    IF ~len.ok \/ Overruns(len.val, e - len.pos) THEN ret(FALSE)
    ELSE IF b[p + 1] = 7 THEN
      IF ~cnt.ok \/ Overruns(cnt.val, e - cnt.pos) THEN ret(FALSE)
      ELSE [pc |-> "abi_export", ok |-> FALSE, pos |-> cnt.pos, n |-> cnt.val.lo]
    ELSE [pc |-> "abi_section", ok |-> FALSE, pos |-> p + len.val.lo, n |-> 0]

\* One iteration of the section loop (lines 37-88), up to the for loop: the
\* next control point, the returned bool if it returns, pos, and
\* export_vector_size.
AbiSectionIter(b, p, e) ==
  LET ret(r) == [pc |-> "done", ok |-> r, pos |-> p, n |-> 0] IN
  IF ~(p < e) THEN ret(TRUE)
  ELSE IF p + 1 > e THEN ret(FALSE)
  ELSE
    LET section_type == b[p + 1]
        len == ParseVarint(b, p + 1, e, Zero)
    IN
    IF ~len.ok \/ Overruns(len.val, e - len.pos) THEN ret(FALSE)
    ELSE IF section_type = 7 THEN
      LET cnt == ParseVarint(b, len.pos, e, Zero) IN
      IF ~cnt.ok \/ Overruns(cnt.val, e - cnt.pos) THEN ret(FALSE)
      ELSE [pc |-> "abi_export", ok |-> FALSE, pos |-> cnt.pos, n |-> cnt.val.lo]
    ELSE [pc |-> "abi_section", ok |-> FALSE, pos |-> len.pos + len.val.lo, n |-> 0]

\* One iteration of the export loop (lines 52-82), or its exit (line 83): k
\* is i, cnt is export_vector_size.  The index is skipped by a parseVarint
\* that adds into export_name_size (line 79).
AbiExportIter(b, p, e, k, cnt) ==
  LET ret(r, v) == [pc |-> "done", ok |-> r, pos |-> p, abi |-> v] IN
  IF ~(k < cnt) THEN ret(TRUE, "Unknown")
  ELSE
    LET size == ParseVarint(b, p, e, Zero) IN
    IF ~size.ok \/ Overruns(size.val, e - size.pos) THEN ret(FALSE, "Unknown")
    ELSE
      LET name_begin == size.pos
          p2 == size.pos + size.val.lo
      IN
      IF p2 + 1 > e THEN ret(FALSE, "Unknown")
      ELSE
        LET kind == b[p2 + 1]
            export_name == Bytes(b, name_begin, size.val.lo)
            idx == ParseVarint(b, p2 + 1, e, size.val)
        IN
        IF kind = 0 /\ export_name = Abi010 THEN ret(TRUE, "ProxyWasm_0_1_0")
        ELSE IF kind = 0 /\ export_name = Abi020 THEN ret(TRUE, "ProxyWasm_0_2_0")
        ELSE IF kind = 0 /\ export_name = Abi021 THEN ret(TRUE, "ProxyWasm_0_2_1")
        ELSE IF ~idx.ok THEN ret(FALSE, "Unknown")
        ELSE [pc |-> "abi_export", ok |-> FALSE, pos |-> idx.pos, abi |-> "Unknown"]

----------------------------------------------------------------------------
(* getCustomSection                                                         *)

\* static_cast<size_t>(section_data_start + section_len - pos): the signed
\* pointer difference; a negative d stands for the size_t value 2^64 + d
CustomSize(section_end, p) == section_end - p

\* One iteration of the section loop (lines 101-127), or its exit (line 128).
CustomSectionIter(b, p, e, name) ==
  LET ret(r) == [pc |-> "done", ok |-> r, pos |-> p, view |-> NoView] IN
  IF ~(p < e) THEN ret(TRUE)
  ELSE IF p + 1 > e THEN ret(FALSE)
  ELSE
    LET section_type == b[p + 1]
        len == ParseVarint(b, p + 1, e, Zero)
    IN
    IF ~len.ok \/ Overruns(len.val, e - len.pos) THEN ret(FALSE)
    ELSE IF section_type = 0 THEN
      LET section_data_start == len.pos
          nlen == ParseVarint(b, section_data_start, e, Zero)
      IN
      IF ~nlen.ok \/ Overruns(nlen.val, e - nlen.pos) THEN ret(FALSE)
      ELSE IF nlen.val.lo = Len(name) /\ Bytes(b, nlen.pos, nlen.val.lo) = name
      THEN [pc |-> "done", ok |-> TRUE, pos |-> nlen.pos + nlen.val.lo,
            view |-> [off |-> nlen.pos + nlen.val.lo,
                      len |-> CustomSize(section_data_start + len.val.lo,
                                         nlen.pos + nlen.val.lo)]]
      ELSE [pc |-> "custom_section", ok |-> FALSE,
            pos |-> section_data_start + len.val.lo, view |-> NoView]
    ELSE [pc |-> "custom_section", ok |-> FALSE, pos |-> len.pos + len.val.lo,
          view |-> NoView]

----------------------------------------------------------------------------
(* getFunctionNameIndex                                                     *)

\* "name", the section getFunctionNameIndex asks getCustomSection for
NameSectionName == << 110, 97, 109, 101 >>

\* the map's operator[]: the later value replaces the earlier
MapInsertOverwrite(m, k, v) ==
  { x \in m : x.key # k } \cup { [key |-> k, value |-> v] }

\* std::unordered_map::insert: a key already present keeps its value
MapInsert(m, k, v) ==
  IF \E x \in m : x.key = k THEN m ELSE m \cup { [key |-> k, value |-> v] }

\* One iteration of the subsection loop (lines 140-156), up to the for loop,
\* or the loop's exit (line 176).
NameSubsectionIter(b, p, e) ==
  LET ret(r) == [pc |-> "done", ok |-> r, pos |-> p, n |-> 0, start |-> 0,
                 ssize |-> 0]
  IN
  IF ~(p < e) THEN ret(TRUE)
  ELSE
    LET subsection_id == b[p + 1]
        size == ParseVarint(b, p + 1, e, Zero)
    IN
    IF ~size.ok \/ Overruns(size.val, e - size.pos) THEN ret(FALSE)
    ELSE IF subsection_id # 1
    THEN [pc |-> "subsection", ok |-> FALSE, pos |-> size.pos + size.val.lo,
          n |-> 0, start |-> 0, ssize |-> 0]
    ELSE
      LET cnt == ParseVarint(b, size.pos, e, Zero) IN
      IF ~cnt.ok \/ Overruns(cnt.val, e - cnt.pos) THEN ret(FALSE)
      ELSE [pc |-> "pair", ok |-> FALSE, pos |-> cnt.pos, n |-> cnt.val.lo,
            start |-> size.pos, ssize |-> size.val.lo]

\* One iteration of the pair loop (lines 157-169), or its exit and the check
\* that follows it (lines 170-172).
NamePairIter(b, p, e, k, cnt, st, sz, m) ==
  LET ret(r) == [pc |-> "done", ok |-> r, pos |-> p, names |-> m] IN
  IF ~(k < cnt)
  THEN IF st + sz # p THEN ret(FALSE)
       ELSE [pc |-> "subsection", ok |-> FALSE, pos |-> p, names |-> m]
  ELSE
    LET func_index == ParseVarint(b, p, e, Zero) IN
    IF ~func_index.ok THEN ret(FALSE)
    ELSE
      LET size == ParseVarint(b, func_index.pos, e, Zero) IN
      IF ~size.ok \/ Overruns(size.val, e - size.pos) THEN ret(FALSE)
      ELSE [pc |-> "pair", ok |-> FALSE, pos |-> size.pos + size.val.lo,
            names |-> MapInsert(m, func_index.val,
                                Bytes(b, size.pos, size.val.lo))]

----------------------------------------------------------------------------
(* getStrippedSource                                                        *)

\* "precompiled_"
Precompiled == << 112, 114, 101, 99, 111, 109, 112, 105, 108, 101, 100, 95 >>

\* section_name.find(t) != std::string::npos
Contains(s, t) ==
  \E k \in 0..(Len(s) - Len(t)) : Bytes(s, k, Len(t)) = t

\* a loop that takes every "precompiled_" section for the first one
StripSectionIterEveryFirst(b, p, e, ret) ==
  LET return(r, o) == [pc |-> "done", ok |-> r, pos |-> p, out |-> o] IN
  IF ~(p < e) THEN return(TRUE, IF ret = << >> THEN b ELSE ret)
  ELSE
    LET len == ParseVarint(b, p + 1, e, Zero)
        nlen == ParseVarint(b, len.pos, e, Zero)
    IN
    IF ~len.ok \/ Overruns(len.val, e - len.pos) THEN return(FALSE, ret)
    ELSE IF b[p + 1] = 0 THEN
      IF ~nlen.ok \/ Overruns(nlen.val, e - nlen.pos) THEN return(FALSE, ret)
      ELSE [pc |-> "strip_section", ok |-> FALSE, pos |-> len.pos + len.val.lo,
            out |-> IF Contains(Bytes(b, nlen.pos, nlen.val.lo), Precompiled)
                    THEN Bytes(b, 0, p) ELSE ret]
    ELSE [pc |-> "strip_section", ok |-> FALSE, pos |-> len.pos + len.val.lo,
          out |-> IF ret # << >>
                  THEN ret \o Bytes(b, p, len.pos + len.val.lo - p) ELSE ret]

\* One iteration of the section loop (lines 188-221), or its exit (lines
\* 222-226): ret is the output string so far.
StripSectionIter(b, p, e, ret) ==
  LET return(r, o) == [pc |-> "done", ok |-> r, pos |-> p, out |-> o] IN
  IF ~(p < e) THEN return(TRUE, IF ret = << >> THEN b ELSE ret)
  ELSE IF p + 1 > e THEN return(FALSE, ret)
  ELSE
    LET section_start == p
        section_type == b[p + 1]
        len == ParseVarint(b, p + 1, e, Zero)
    IN
    IF ~len.ok \/ Overruns(len.val, e - len.pos) THEN return(FALSE, ret)
    ELSE IF section_type = 0 THEN
      LET section_data_start == len.pos
          nlen == ParseVarint(b, section_data_start, e, Zero)
      IN
      IF ~nlen.ok \/ Overruns(nlen.val, e - nlen.pos) THEN return(FALSE, ret)
      ELSE [pc |-> "strip_section", ok |-> FALSE,
            pos |-> section_data_start + len.val.lo,
            out |-> IF Contains(Bytes(b, nlen.pos, nlen.val.lo), Precompiled)
                       /\ ret = << >>
                    THEN Bytes(b, 0, section_start)
                    ELSE ret]
    ELSE [pc |-> "strip_section", ok |-> FALSE, pos |-> len.pos + len.val.lo,
          out |-> IF ret # << >>
                  THEN ret \o Bytes(b, section_start,
                                    len.pos + len.val.lo - section_start)
                  ELSE ret]

----------------------------------------------------------------------------
(* Inputs of the scanning operations: buffers built from sections, with     *)
(* what they were built from.                                               *)

RECURSIVE Concat(_)
Concat(ss) == IF ss = << >> THEN << >> ELSE Head(ss) \o Concat(Tail(ss))

\* a section: type byte, length, payload
Sec(type, payload) == << type >> \o Leb(U32(Len(payload))) \o payload

\* a custom section: its payload is a length-prefixed name, then data
Custom(name, data) == Sec(0, Leb(U32(Len(name))) \o name \o data)

HdrOk == WasmMagic \o << 1, 0, 0, 0 >>

\* buffers shorter than 8 bytes, or of 8 bytes and more with another magic
BadBuffers ==
  { << >>, << 0, 97, 115 >>, WasmMagic, WasmMagic \o << 1, 0, 0 >>,
    << 0, 97, 115, 110, 1, 0, 0, 0 >>,
    << 0, 97, 115, 110, 1, 0, 0, 0 >> \o Custom(NameSectionName, << 1, 1, 0 >>),
    << 1, 2, 3, 4, 5, 6, 7, 8, 9 >> }

BadCases == { [buf |-> b, expect |-> NoExpect] : b \in BadBuffers }

TypeSec == Sec(1, << 96 >>)
\* a section with no payload
EmptySec == Sec(11, << >>)
\* a section whose length takes two bytes to encode
LongSec == Sec(3, [k \in 1..130 |-> k])
CodeSec == Sec(10, << 0, 11 >>)
FooSec == Custom(<< 102, 111, 111 >>, << 1, 2 >>)
\* declares 5 bytes of payload and has one
TruncatedSec == << 1, 5, 0 >>

\* Sections of the inputs of getStrippedSource: custom says type 0, pre that
\* the name contains "precompiled_", wf that the section is well-formed.
StripFragments ==
  { [raw |-> TypeSec, custom |-> FALSE, pre |-> FALSE, wf |-> TRUE],
    [raw |-> EmptySec, custom |-> FALSE, pre |-> FALSE, wf |-> TRUE],
    [raw |-> LongSec, custom |-> FALSE, pre |-> FALSE, wf |-> TRUE],
    [raw |-> CodeSec, custom |-> FALSE, pre |-> FALSE, wf |-> TRUE],
    [raw |-> FooSec, custom |-> TRUE, pre |-> FALSE, wf |-> TRUE],
    \* "precompiled_x"
    [raw |-> Custom(Precompiled \o << 120 >>, << 9 >>),
     custom |-> TRUE, pre |-> TRUE, wf |-> TRUE],
    \* "my_precompiled_"
    [raw |-> Custom(<< 109, 121, 95 >> \o Precompiled, << >>),
     custom |-> TRUE, pre |-> TRUE, wf |-> TRUE],
    \* "precompiled", and data that starts with "_"
    [raw |-> Custom(SubSeq(Precompiled, 1, 11), << 95, 7 >>),
     custom |-> TRUE, pre |-> FALSE, wf |-> TRUE],
    \* a custom section of 1 byte whose name length is 14
    [raw |-> << 0, 1, 14 >>, custom |-> TRUE, pre |-> FALSE, wf |-> FALSE],
    [raw |-> TruncatedSec, custom |-> FALSE, pre |-> FALSE, wf |-> FALSE] }

Raws(ss) == [k \in 1..Len(ss) |-> ss[k].raw]

\* the first section with a "precompiled_" name, Len(ss) + 1 if there is none
FirstPre(ss) ==
  IF \E k \in 1..Len(ss) : ss[k].pre
  THEN CHOOSE k \in 1..Len(ss) : ss[k].pre /\ \A j \in 1..(k - 1) : ~ss[j].pre
  ELSE Len(ss) + 1

\* the header, the sections before the first "precompiled_" one, and the
\* non-custom sections after it
StrippedOf(ss) ==
  HdrOk \o Concat([k \in 1..Len(ss) |->
                     IF k < FirstPre(ss) \/ (k > FirstPre(ss) /\ ~ss[k].custom)
                     THEN ss[k].raw ELSE << >>])

StripCases ==
  BadCases \cup
  { [buf |-> HdrOk \o Concat(Raws(ss)),
     expect |-> [NoExpect EXCEPT !.valid = \A k \in 1..Len(ss) : ss[k].wf,
                                 !.out = StrippedOf(ss)]] :
      ss \in SeqsUpTo(StripFragments, MaxSections) }

\* Export entries: name, kind byte, index.
ExportEntries ==
  { [name |-> Abi010, kind |-> 0, index |-> U32(1)],
    [name |-> Abi020, kind |-> 0, index |-> U32(2)],
    [name |-> Abi021, kind |-> 0, index |-> U32(300)],
    [name |-> Abi021, kind |-> 3, index |-> U32(0)],
    \* "memory"
    [name |-> << 109, 101, 109, 111, 114, 121 >>, kind |-> 2, index |-> U32(0)],
    \* the empty name
    [name |-> << >>, kind |-> 0, index |-> U32(0)],
    \* "f", with index 2^32 - 2
    [name |-> << 102 >>, kind |-> 0, index |-> [hi |-> W16 - 1, lo |-> W16 - 2]] }

ExportRaw(x) == Leb(U32(Len(x.name))) \o x.name \o << x.kind >> \o Leb(x.index)

\* an export section whose vector length is the number of entries plus extra
ExportSec(xs, extra) ==
  Sec(7, Leb(U32(Len(xs) + extra))
         \o Concat([k \in 1..Len(xs) |-> ExportRaw(xs[k])]))

AbiNames == { Abi010, Abi020, Abi021 }

VersionOf(name) ==
  IF name = Abi010 THEN "ProxyWasm_0_1_0"
  ELSE IF name = Abi020 THEN "ProxyWasm_0_2_0"
  ELSE "ProxyWasm_0_2_1"

IsAbiExport(x) == x.kind = 0 /\ x.name \in AbiNames

\* the version of the first function export with one of the three names
AbiOf(xs) ==
  IF \E k \in 1..Len(xs) : IsAbiExport(xs[k])
  THEN VersionOf(xs[CHOOSE k \in 1..Len(xs) :
                      /\ IsAbiExport(xs[k])
                      /\ \A j \in 1..(k - 1) : ~IsAbiExport(xs[j])].name)
  ELSE "Unknown"

AbiCases ==
  BadCases \cup
  { [buf |-> HdrOk \o before \o ExportSec(xs, extra) \o after,
     expect |-> [NoExpect EXCEPT !.valid = (extra = 0 /\ after # TruncatedSec),
                                 !.abi = AbiOf(xs)]] :
      before \in { << >>, TypeSec, FooSec },
      xs \in SeqsUpTo(ExportEntries, MaxExports),
      extra \in { 0, 1 },
      after \in { << >>, CodeSec, TruncatedSec } }
  \cup
  { [buf |-> HdrOk \o Concat(ss),
     expect |-> [NoExpect EXCEPT !.valid = \A k \in 1..Len(ss) : ss[k] # TruncatedSec]] :
      ss \in SeqsUpTo({ TypeSec, EmptySec, FooSec, TruncatedSec }, MaxSections) }

\* (index, name) pairs of a function-name subsection: (0, "a"), (0, "b"),
\* (300, "main"), (1, "")
NamePairs ==
  { [idx |-> U32(0), name |-> << 97 >>],
    [idx |-> U32(1), name |-> << >>],
    [idx |-> U32(0), name |-> << 98 >>],
    [idx |-> U32(300), name |-> << 109, 97, 105, 110 >>] }

PairRaw(x) == Leb(x.idx) \o Leb(U32(Len(x.name))) \o x.name

\* the function-name subsection (id 1) of the pairs, its declared size the
\* size of its body less short
FuncNames(ps, short) ==
  LET body == Leb(U32(Len(ps))) \o Concat([k \in 1..Len(ps) |-> PairRaw(ps[k])])
  IN  << 1 >> \o Leb(U32(Len(body) - short)) \o body

\* a subsection of id 2 and one byte
LocalNames == << 2, 1, 0 >>

\* a subsection of id 0 and no bytes
EmptySubsection == << 0, 0 >>

\* a custom section named "name" of 1 byte: its name runs past its end
OverrunNameSec == << 0, 1, 4 >> \o NameSectionName

NameCases ==
  BadCases \cup
  { [buf |-> HdrOk \o before \o Custom(NameSectionName, sub \o FuncNames(ps, short))
                   \o after,
     expect |-> [NoExpect EXCEPT !.valid = (short = 0 /\ before # OverrunNameSec),
                                 !.pairs = ps]] :
      before \in { << >>, EmptySec, FooSec, OverrunNameSec },
      sub \in { << >>, LocalNames, EmptySubsection },
      ps \in SeqsUpTo(NamePairs, MaxPairs),
      short \in { 0, 1 },
      after \in { << >>, CodeSec, TruncatedSec } }

----------------------------------------------------------------------------

Init ==
  /\ shiftMode \in ShiftModes
  /\ buf = << >>
  /\ want = << >>
  /\ op = "none"
  /\ pc = "idle"
  /\ pos = 0
  /\ end = 0
  /\ i = 0
  /\ n = 0
  /\ start = 0
  /\ ssize = 0
  /\ ok = FALSE
  /\ val = Zero
  /\ abi = "Unknown"
  /\ view = NoView
  /\ names = NoNames
  /\ out = << >>
  /\ expect = NoExpect
  /\ iters = 0
  /\ round = 1
  /\ prev = << >>

\* parseVarint called on a raw byte string, with ret = 0 and pos at its start
CallParseVarint ==
  /\ pc = "idle"
  /\ \E bs \in RawVarints :
       LET r == ParseVarint(bs, 0, Len(bs), Zero)
       IN  /\ buf' = bs
           /\ op' = "parseVarint"
           /\ pc' = "done"
           /\ pos' = r.pos
           /\ end' = Len(bs)
           /\ ok' = r.ok
           /\ val' = r.val
  /\ UNCHANGED << shiftMode, want, i, n, start, ssize, abi, view, names, out,
                  expect, iters, round, prev >>

\* parseVarint called on the canonical encoding of a uint32_t
CallRoundTrip ==
  /\ pc = "idle"
  /\ \E v \in U32Values :
       LET bs == Leb(v)
           r  == ParseVarint(bs, 0, Len(bs), Zero)
       IN  /\ buf' = bs
           /\ op' = "roundTrip"
           /\ pc' = "done"
           /\ pos' = r.pos
           /\ end' = Len(bs)
           /\ ok' = r.ok
           /\ val' = r.val
           /\ expect' = [NoExpect EXCEPT !.valid = TRUE, !.v = v]
  /\ UNCHANGED << shiftMode, want, i, n, start, ssize, abi, view, names, out,
                  iters, round, prev >>

\* The prologue of a scanning operation o called on the buffer of case c:
\* the outputs as the caller passes them (empty), the header check, the
\* cursor past the header.
Begin(o, c, w, loop) ==
  /\ buf' = c.buf
  /\ expect' = c.expect
  /\ op' = o
  /\ want' = w
  /\ pc' = IF CheckWasmHeader(c.buf) THEN loop ELSE "done"
  /\ ok' = FALSE
  /\ pos' = 8
  /\ end' = Len(c.buf)
  /\ abi' = "Unknown"
  /\ view' = NoView
  /\ names' = NoNames
  /\ out' = << >>
  /\ UNCHANGED << shiftMode, i, n, start, ssize, val, iters, round, prev >>

CallGetAbiVersion ==
  /\ pc = "idle"
  /\ \E c \in AbiCases : Begin("getAbiVersion", c, << >>, "abi_section")

CallGetCustomSection ==
  /\ pc = "idle"
  /\ \E c \in NameCases, w \in { NameSectionName, << 102, 111, 111 >> } :
       Begin("getCustomSection", c, w, "custom_section")

CallGetFunctionNameIndex ==
  /\ pc = "idle"
  /\ \E c \in NameCases :
       Begin("getFunctionNameIndex", c, NameSectionName, "custom_section")

CallGetStrippedSource ==
  /\ pc = "idle"
  /\ \E c \in StripCases : Begin("getStrippedSource", c, << >>, "strip_section")

\* getStrippedSource called again, on the output of a call that succeeded
Restrip ==
  /\ pc = "done"
  /\ op = "getStrippedSource"
  /\ ok
  /\ round = 1
  /\ round' = 2
  /\ prev' = out
  /\ buf' = out
  /\ out' = << >>
  /\ pc' = IF CheckWasmHeader(out) THEN "strip_section" ELSE "done"
  /\ ok' = FALSE
  /\ pos' = 8
  /\ end' = Len(out)
  /\ iters' = 0
  /\ UNCHANGED << shiftMode, want, op, i, n, start, ssize, val, abi, view,
                  names, expect >>

AbiSection ==
  /\ pc = "abi_section"
  /\ LET s == AbiSectionIter(buf, pos, end)
     IN  /\ pc' = s.pc
         /\ ok' = s.ok
         /\ pos' = s.pos
         /\ n' = s.n
  /\ i' = 0
  /\ iters' = IF pos < end THEN iters + 1 ELSE iters
  /\ UNCHANGED << shiftMode, buf, want, op, end, start, ssize, val, abi, view,
                  names, out, expect, round, prev >>

AbiExport ==
  /\ pc = "abi_export"
  /\ LET s == AbiExportIter(buf, pos, end, i, n)
     IN  /\ pc' = s.pc
         /\ ok' = s.ok
         /\ pos' = s.pos
         /\ abi' = s.abi
  /\ i' = IF i < n THEN i + 1 ELSE i
  /\ iters' = IF i < n THEN iters + 1 ELSE iters
  /\ UNCHANGED << shiftMode, buf, want, op, end, n, start, ssize, val, view,
                  names, out, expect, round, prev >>

\* getCustomSection's loop, also as getFunctionNameIndex runs it (line 134):
\* there a return of true goes on at line 137
CustomSection ==
  /\ pc = "custom_section"
  /\ LET s == CustomSectionIter(buf, pos, end, want)
     IN  /\ pc' = IF s.pc = "done" /\ s.ok /\ op = "getFunctionNameIndex"
                  THEN "found" ELSE s.pc
         /\ ok' = (s.ok /\ op = "getCustomSection")
         /\ pos' = s.pos
         /\ view' = s.view
  /\ iters' = IF pos < end THEN iters + 1 ELSE iters
  /\ UNCHANGED << shiftMode, buf, want, op, end, i, n, start, ssize, val, abi,
                  names, out, expect, round, prev >>

\* Lines 137-139.  A view of negative length is a size_t near 2^64, and
\* data() + size() overflows the pointer: the loop is skipped (the sum wraps
\* below pos) or its first bounds check fails.
NamesEnter ==
  /\ pc = "found"
  /\ \E r \in BOOLEAN :
       /\ pc' = IF view.len > 0 THEN "subsection" ELSE "done"
       /\ ok' = IF view.len > 0 THEN FALSE ELSE IF view.len = 0 THEN TRUE ELSE r
  /\ pos' = IF view.len > 0 THEN view.off ELSE pos
  /\ end' = IF view.len > 0 THEN view.off + view.len ELSE end
  /\ UNCHANGED << shiftMode, buf, want, op, i, n, start, ssize, val, abi, view,
                  names, out, expect, iters, round, prev >>

NameSubsection ==
  /\ pc = "subsection"
  /\ LET s == NameSubsectionIter(buf, pos, end)
     IN  /\ pc' = s.pc
         /\ ok' = s.ok
         /\ pos' = s.pos
         /\ n' = s.n
         /\ start' = s.start
         /\ ssize' = s.ssize
  /\ i' = 0
  /\ iters' = IF pos < end THEN iters + 1 ELSE iters
  /\ UNCHANGED << shiftMode, buf, want, op, end, val, abi, view, names, out,
                  expect, round, prev >>

NamePair ==
  /\ pc = "pair"
  /\ LET s == NamePairIter(buf, pos, end, i, n, start, ssize, names)
     IN  /\ pc' = s.pc
         /\ ok' = s.ok
         /\ pos' = s.pos
         /\ names' = s.names
  /\ i' = IF i < n THEN i + 1 ELSE i
  /\ iters' = IF i < n THEN iters + 1 ELSE iters
  /\ UNCHANGED << shiftMode, buf, want, op, end, n, start, ssize, val, abi,
                  view, out, expect, round, prev >>

StripSection ==
  /\ pc = "strip_section"
  /\ LET s == StripSectionIter(buf, pos, end, out)
     IN  /\ pc' = s.pc
         /\ ok' = s.ok
         /\ pos' = s.pos
         /\ out' = s.out
  /\ iters' = IF pos < end THEN iters + 1 ELSE iters
  /\ UNCHANGED << shiftMode, buf, want, op, end, i, n, start, ssize, val, abi,
                  view, names, expect, round, prev >>

Next ==
  \/ CallParseVarint
  \/ CallRoundTrip
  \/ CallGetAbiVersion
  \/ CallGetCustomSection
  \/ CallGetFunctionNameIndex
  \/ CallGetStrippedSource
  \/ Restrip
  \/ AbiSection
  \/ AbiExport
  \/ CustomSection
  \/ NamesEnter
  \/ NameSubsection
  \/ NamePair
  \/ StripSection

Spec == Init /\ [][Next]_vars

----------------------------------------------------------------------------

(* The claims.                                                              *)

ScanOps == { "getAbiVersion", "getCustomSection", "getFunctionNameIndex",
             "getStrippedSource" }

\* shorter than 8 bytes, or the first 4 bytes are not the magic number
BadHeader(b) == Len(b) < 8 \/ SubSeq(b, 1, 4) # WasmMagic

\* C1: on a buffer shorter than 8 bytes, or whose first 4 bytes are not
\* 00 61 73 6D, each of the four scanning operations returns false and
\* leaves its output as it was passed.
C1_InvalidHeaderFails ==
  (pc = "done" /\ op \in ScanOps /\ BadHeader(buf)) =>
     (~ok /\ abi = "Unknown" /\ view = NoView /\ names = NoNames /\ out = << >>)

\* C2: on a module with a valid header whose sections decode within bounds,
\* getAbiVersion returns true with the version named by the first export of
\* kind 0 that has one of the three names, and with Unknown if there is
\* none (or no export section).
C2_AbiOfFirstFunctionExport ==
  (op = "getAbiVersion" /\ pc = "done" /\ expect.valid) =>
     (ok /\ abi = expect.abi)

\* C3: a range getCustomSection returns on a match has a length that is not
\* negative and lies inside the input buffer, on every buffer.
C3_ViewInsideBuffer ==
  (op = "getCustomSection" /\ pc = "done" /\ ok /\ view # NoView) =>
     (view.off >= 0 /\ view.len >= 0 /\ view.off + view.len <= Len(buf))

\* C4: on a structurally valid module and an empty output string,
\* getStrippedSource returns true with the header, the sections before the
\* first custom section whose name contains "precompiled_", and the
\* non-custom sections after it, in their order; with a copy of the input
\* when there is no such section.
C4_StrippedSource ==
  (op = "getStrippedSource" /\ pc = "done" /\ round = 1 /\ expect.valid) =>
     (ok /\ out = expect.out)

\* a module of a type section, a custom section "precompiled_x" and a code
\* section was stripped to the header, the type section and the code section
C4_Witness ==
  /\ op = "getStrippedSource" /\ pc = "done" /\ round = 1 /\ expect.valid /\ ok
  /\ buf = HdrOk \o TypeSec \o Custom(Precompiled \o << 120 >>, << 9 >>) \o CodeSec
  /\ out = HdrOk \o TypeSec \o CodeSec

\* the name the pairs give index k first
FirstName(ps, k) ==
  ps[CHOOSE j \in 1..Len(ps) :
       ps[j].idx = k /\ \A h \in 1..(j - 1) : ps[h].idx # k].name

\* the name the pairs give index k last
LastName(ps, k) ==
  ps[CHOOSE j \in 1..Len(ps) :
       ps[j].idx = k /\ \A h \in (j + 1)..Len(ps) : ps[h].idx # k].name

DecodedNames == op = "getFunctionNameIndex" /\ pc = "done" /\ ok /\ expect.valid

C6_StripIdempotent ==
  (op = "getStrippedSource" /\ pc = "done" /\ round = 2) =>
     (ok /\ out = prev)

\* C7: the canonical encoding of every uint32_t decodes, with ret = 0 on
\* entry, to success, to the value encoded, and with the cursor just past the
\* encoding's last byte.
C7_RoundTrip ==
  (op = "roundTrip" /\ pc = "done") =>
     (ok /\ val = expect.v /\ pos = Len(buf))

\* the 5th byte's low seven bits do not fit the four bits left of the value
DropsHighBits == pos >= 5 /\ (buf[5] % 128) >= 16

\* C9: parseVarint fails on every encoding of more than 5 bytes, and never
\* succeeds with a value that lost high-order bits.
C9_RejectsOverlong ==
  (op = "parseVarint" /\ pc = "done" /\ (pos > 5 \/ DropsHighBits)) => ~ok

\* C8: when getFunctionNameIndex or getStrippedSource returns false, the
\* mapping, respectively the output string, holds nothing of the call.
C8_NoPartialOutput ==
  (pc = "done" /\ ~ok) =>
     /\ (op = "getFunctionNameIndex" => names = NoNames)
     /\ (op = "getStrippedSource" => out = << >>)

\* C10: every iteration of a section, export, subsection or pair loop moves
\* the cursor forward or returns, and no call begins more iterations than
\* the buffer has bytes.
C10_Terminates ==
  /\ [][iters' = iters + 1 => (pos' > pos \/ pc' = "done")]_vars
  /\ [](iters <= Len(buf))

\* a call that went through the section, subsection and pair loops and
\* returned
C10_Witness ==
  op = "getFunctionNameIndex" /\ pc = "done" /\ ok /\ iters >= 5


====
